---- MODULE Spec2Model ----
(***************************************************************************)
(* State-machine model of terraform-provider-qrcode: the qrcode_generate   *)
(* resource (Create / Read / Update / Delete of a PNG file on disk) and    *)
(* the qrcode_generate data source (ASCII rendering), together with the    *)
(* filesystem and the QR library they call.                                *)
(***************************************************************************)
EXTENDS Integers, Sequences, FiniteSets, TLC

VARIABLES
    state,     \* the resource's Terraform state (present flag + attributes)
    files,     \* filesystem: path -> bytes of the regular file there, or NoFile
    dirs,      \* filesystem: set of existing directories (besides the cwd)
    diags,     \* error diagnostics of the last response, in order
    calls,     \* library / filesystem / state calls the last handler made
    request,   \* the last request the host issued (operation and its input)
    dsState,   \* the data source state set by the last data source Read
    intBits    \* width of Go's int in this build (32 or 64)

vars == <<state, files, dirs, diags, calls, request, dsState, intBits>>

----------------------------------------------------------------------------
(* Framework attribute values: types.String, types.Int64, types.Bool.      *)
(* A null value carries the zero value, as ValueString / ValueInt64 /      *)
(* ValueBool return it.                                                    *)

StringNull == [null |-> TRUE, v |-> ""]
StringValue(s) == [null |-> FALSE, v |-> s]

\* A 64-bit integer hi * 2^32 + lo with 0 <= lo < 2^31.
I64(h, l) == [hi |-> h, lo |-> l]
Int64Null == [null |-> TRUE, v |-> I64(0, 0)]
Int64Value(n) == [null |-> FALSE, v |-> n]

BoolNull == [null |-> TRUE, v |-> FALSE]
BoolValue(b) == [null |-> FALSE, v |-> b]

\* error_correction strings are sequences of characters, so that ToUpper
\* can be computed; "" is << >>.
LevelNull == [null |-> TRUE, v |-> << >>]
LevelValue(s) == [null |-> FALSE, v |-> s]

\* File paths are sequences of path components; "" is << >>.
PathValue(p) == [null |-> FALSE, v |-> p]

\* A computed string attribute (a digest, a glyph grid); null carries nothing.
ComputedNull == [null |-> TRUE, v |-> << >>]
ComputedValue(d) == [null |-> FALSE, v |-> d]

IsNull(a) == a.null
ValueString(a) == a.v
ValueInt64(a) == a.v
ValueBool(a) == a.v

----------------------------------------------------------------------------
(* Integers.                                                               *)

\* v < n and v > n for a 64-bit v and a small non-negative n.
Less(v, n) == v.hi < 0 \/ (v.hi = 0 /\ v.lo < n)
Greater(v, n) == v.hi > 0 \/ (v.hi = 0 /\ v.lo > n)

\* int(x) of an int64 x: the value itself where int has 64 bits, its low
\* 32 bits where int has 32.
GoInt(v, bits) == IF bits = 64 THEN v ELSE I64(0, v.lo)

defaultSize == 256
minSize == 100
maxSize == 2000

----------------------------------------------------------------------------
(* The QR library (github.com/skip2/go-qrcode).                            *)

Low == "Low"
Medium == "Medium"
High == "High"
Highest == "Highest"

\* A text that stands for one longer than any QR code can hold.
LongText == "LONG"

\* Bytes of a text.
ByteLen(t) == IF t = LongText THEN 3000 ELSE Len(t)

\* Byte capacity of the largest QR code at each recovery level.
Capacity(level) ==
    CASE level = Low -> 2953
      [] level = Medium -> 2331
      [] level = High -> 1663
      [] level = Highest -> 1273

\* The library rejects empty content and content over capacity.
EncodeFails(text, level) == ByteLen(text) = 0 \/ ByteLen(text) > Capacity(level)

\* qrcode.Encode(text, level, size): the PNG bytes, a function of the three.
Encode(text, level, size) ==
    IF EncodeFails(text, level)
    THEN [err |-> TRUE, data |-> << >>]
    ELSE [err |-> FALSE, data |-> <<"png", text, level, size>>]

\* qrcode.New(text, level): the code object, its border enabled.
New(text, level) ==
    IF EncodeFails(text, level)
    THEN [err |-> TRUE, qr |-> [Content |-> text, Level |-> level, DisableBorder |-> FALSE]]
    ELSE [err |-> FALSE, qr |-> [Content |-> text, Level |-> level, DisableBorder |-> FALSE]]

\* qr.ToSmallString(inverseColor): the glyph grid, a function of the code
\* object and the polarity.
ToSmallString(qr, inverseColor) ==
    <<"ascii", qr.Content, qr.Level, qr.DisableBorder, inverseColor>>

\* sha256.Sum256 followed by hex.EncodeToString.
Sha256Hex(data) == <<"sha256", data>>

computeSHA256(input) == Sha256Hex(input)

----------------------------------------------------------------------------
(* The filesystem (package os, path/filepath).                             *)

NoFile == << >>

\* What a failed write leaves behind: a created or truncated, incomplete file.
Partial == <<"png-partial">>

\* filepath.Dir: all but the last component; "." (here << >>) for a bare
\* file name and for the empty path.
Dir(p) == IF Len(p) <= 1 THEN << >> ELSE SubSeq(p, 1, Len(p) - 1)

\* The directories MkdirAll(d) walks through, d included.
Prefixes(d) == {SubSeq(d, 1, k) : k \in 1..Len(d)}

\* os.MkdirAll(d, os.ModePerm). failAt = 0: every missing directory on the
\* way is created. failAt = k > 0: the k-th component cannot be created or
\* entered; the ones above it stay created.
MkdirAll(d, ds, failAt) ==
    IF failAt = 0
    THEN [err |-> FALSE, dirs |-> ds \cup Prefixes(d)]
    ELSE [err |-> TRUE, dirs |-> ds \cup {q \in Prefixes(d) : Len(q) < failAt}]

\* os.WriteFile(p, data, 0644). The open fails for the empty path, for a
\* missing parent directory, or on fault "open"; fault "write" fails after
\* the file was created or truncated.
WriteFile(p, data, fs, ds, fault) ==
    IF p = << >> \/ Dir(p) \notin (ds \cup {<< >>}) \/ fault = "open"
    THEN [err |-> TRUE, files |-> fs]
    ELSE IF fault = "write"
    THEN [err |-> TRUE, files |-> [fs EXCEPT ![p] = Partial]]
    ELSE [err |-> FALSE, files |-> [fs EXCEPT ![p] = data]]

\* The results os.Stat(p) can have: nil for an existing file, ENOENT for a
\* missing one, and in both cases another error (EACCES, ENOTDIR, ...).
StatOutcomes(p, fs) ==
    (IF fs[p] # NoFile THEN {"ok"} ELSE {"notexist"}) \cup {"error"}

\* os.IsNotExist(err)
IsNotExist(outcome) == outcome = "notexist"

\* os.Remove(p)
Remove(p, fs, fault) ==
    IF fault
    THEN [err |-> TRUE, files |-> fs]
    ELSE [err |-> FALSE, files |-> [fs EXCEPT ![p] = NoFile]]

----------------------------------------------------------------------------
(* Schema validation.                                                      *)

\* Faulty variant of ExactlyOneOf: the validator only asks for one of the two
\* (AtLeastOneOf).
AtLeastOneOf(text, sensitive_text) == ~IsNull(text) \/ ~IsNull(sensitive_text)

\* stringvalidator.ExactlyOneOf(text, sensitive_text): exactly one of the
\* two attributes is non-null.
ExactlyOneOf(text, sensitive_text) == IsNull(text) # IsNull(sensitive_text)

----------------------------------------------------------------------------
(* The resource.                                                           *)

PathNull == [null |-> TRUE, v |-> << >>]

\* No resource in state.
Absent ==
    [present |-> FALSE, text |-> StringNull, sensitive_text |-> StringNull,
     size |-> Int64Null, file |-> PathNull, sha256 |-> ComputedNull]

\* A call a handler made and how it went: "ok", "error", or for Stat
\* also "notexist".
Call(name, result) == [name |-> name, result |-> result]

\* What a handler leaves: the response state, the filesystem, the
\* diagnostics and the calls it made.
Response(st, fs, ds, dg, cs) ==
    [state |-> st, files |-> fs, dirs |-> ds, diags |-> dg, calls |-> cs]

\* Create: the text to encode.
SelectText(plan) ==
    IF ~IsNull(plan.text)
    THEN ValueString(plan.text)
    ELSE ValueString(plan.sensitive_text)

\* Create: the range check on a non-null size.
SizeOutOfRange(sizeVal) == Less(sizeVal, minSize) \/ Greater(sizeVal, maxSize)

\* Faulty variant of Checksum: the digest is taken before the bytes are there.
ChecksumOfNothing(pngData) == Sha256Hex(<< >>)

\* Create: the checksum of the PNG bytes.
Checksum(pngData) == Sha256Hex(pngData)

\* Faulty variant of Save: the state is set before the file is written.
SaveStateFirst(plan, st, fs, ds, pngData, sha256Checksum, failAt, fault) ==
    LET filePath == ValueString(plan.file)
        mk == MkdirAll(Dir(filePath), ds, failAt)
        wr == WriteFile(filePath, pngData, fs, mk.dirs, fault)
        set == [present |-> TRUE, text |-> plan.text,
                sensitive_text |-> plan.sensitive_text,
                size |-> plan.size, file |-> plan.file,
                sha256 |-> ComputedValue(sha256Checksum)]
    IN  IF mk.err
        THEN Response(st, fs, mk.dirs, <<"Failed to Create Directory">>,
                      <<Call("Encode", "ok"), Call("MkdirAll", "error")>>)
        ELSE IF wr.err
        THEN Response(set, wr.files, mk.dirs, <<"Failed to Save QR Code">>,
                      <<Call("Encode", "ok"), Call("MkdirAll", "ok"),
                        Call("StateSet", "ok"), Call("WriteFile", "error")>>)
        ELSE Response(set, wr.files, mk.dirs, << >>,
                      <<Call("Encode", "ok"), Call("MkdirAll", "ok"),
                        Call("StateSet", "ok"), Call("WriteFile", "ok")>>)

\* Create, from "Save to file" on: make the directory, write the file, set
\* the state.
Save(plan, st, fs, ds, pngData, sha256Checksum, failAt, fault) ==
    LET filePath == ValueString(plan.file)
        mk == MkdirAll(Dir(filePath), ds, failAt)
        wr == WriteFile(filePath, pngData, fs, mk.dirs, fault)
    IN  IF mk.err
        THEN Response(st, fs, mk.dirs, <<"Failed to Create Directory">>,
                      <<Call("Encode", "ok"), Call("MkdirAll", "error")>>)
        ELSE IF wr.err
        THEN Response(st, wr.files, mk.dirs, <<"Failed to Save QR Code">>,
                      <<Call("Encode", "ok"), Call("MkdirAll", "ok"),
                        Call("WriteFile", "error")>>)
        ELSE Response([present |-> TRUE, text |-> plan.text,
                       sensitive_text |-> plan.sensitive_text,
                       size |-> plan.size, file |-> plan.file,
                       sha256 |-> ComputedValue(sha256Checksum)],
                      wr.files, mk.dirs, << >>,
                      <<Call("Encode", "ok"), Call("MkdirAll", "ok"),
                        Call("WriteFile", "ok"), Call("StateSet", "ok")>>)

\* qrcodeResource.Create with the response state st as the host set it up.
Create(plan, st, fs, ds, bits, failAt, fault) ==
    LET qrText == SelectText(plan)
        sizeVal == GoInt(ValueInt64(plan.size), bits)
        size == IF IsNull(plan.size) THEN I64(0, defaultSize) ELSE sizeVal
        png == Encode(qrText, Medium, size)
    IN  IF ~IsNull(plan.size) /\ SizeOutOfRange(sizeVal)
        THEN Response(st, fs, ds, <<"Invalid Size">>, << >>)
        ELSE IF png.err
        THEN Response(st, fs, ds, <<"QR Code Generation Failed">>,
                      <<Call("Encode", "error")>>)
        ELSE Save(plan, st, fs, ds, png.data, Checksum(png.data), failAt, fault)

\* Faulty variant of Update: an update keeps the checksum the state already has.
UpdateKeepsChecksum(plan, st, fs, ds, bits, failAt, fault) ==
    LET r == Create(plan, st, fs, ds, bits, failAt, fault)
    IN  IF r.diags = << >> /\ st.present
        THEN [r EXCEPT !.state.sha256 = st.sha256]
        ELSE r

\* qrcodeResource.Update: Create on the plan, writing into the update
\* response, whose state the host set to the prior state.
Update(plan, st, fs, ds, bits, failAt, fault) ==
    Create(plan, st, fs, ds, bits, failAt, fault)

\* qrcodeResource.Read
Read(st, fs, ds, outcome) ==
    IF IsNull(st.file) \/ ValueString(st.file) = << >>
    THEN Response(st, fs, ds, << >>, << >>)
    ELSE IF IsNotExist(outcome)
    THEN Response(Absent, fs, ds, << >>,
                  <<Call("Stat", outcome), Call("RemoveResource", "ok")>>)
    ELSE Response(st, fs, ds, << >>, <<Call("Stat", outcome)>>)

\* qrcodeResource.Delete
Delete(st, fs, ds, outcome, fault) ==
    LET filePath == ValueString(st.file)
        rm == Remove(filePath, fs, fault)
    IN  IF IsNull(st.file) \/ ValueString(st.file) = << >>
        THEN Response(st, fs, ds, << >>, << >>)
        ELSE IF outcome = "ok"
        THEN IF rm.err
             THEN Response(st, fs, ds, <<"Failed to Delete QR Code">>,
                           <<Call("Stat", outcome), Call("Remove", "error")>>)
             ELSE Response(Absent, rm.files, ds, << >>,
                           <<Call("Stat", outcome), Call("Remove", "ok"),
                             Call("RemoveResource", "ok")>>)
        ELSE Response(Absent, fs, ds, << >>,
                      <<Call("Stat", outcome), Call("RemoveResource", "ok")>>)

----------------------------------------------------------------------------
(* The data source.                                                        *)

UpperChar(c) ==
    CASE c = "l" -> "L"
      [] c = "m" -> "M"
      [] c = "q" -> "Q"
      [] c = "h" -> "H"
      [] c = "x" -> "X"
      [] OTHER -> c

\* strings.ToUpper
ToUpper(s) == [i \in DOMAIN s |-> UpperChar(s[i])]

\* Faulty variant of RecoveryLevel: the switch is on the string as given.
RecoveryLevelCaseSensitive(error_correction) ==
    LET u == ValueString(error_correction)
    IN  CASE u = <<"L">> -> [err |-> FALSE, level |-> Low]
          [] u = <<"M">> \/ u = << >> -> [err |-> FALSE, level |-> Medium]
          [] u = <<"Q">> -> [err |-> FALSE, level |-> High]
          [] u = <<"H">> -> [err |-> FALSE, level |-> Highest]
          [] OTHER -> [err |-> TRUE, level |-> Medium]

\* The switch on the upper-cased error_correction.
RecoveryLevel(error_correction) ==
    LET u == ToUpper(ValueString(error_correction))
    IN  CASE u = <<"L">> -> [err |-> FALSE, level |-> Low]
          [] u = <<"M">> \/ u = << >> -> [err |-> FALSE, level |-> Medium]
          [] u = <<"Q">> -> [err |-> FALSE, level |-> High]
          [] u = <<"H">> -> [err |-> FALSE, level |-> Highest]
          [] OTHER -> [err |-> TRUE, level |-> Medium]

\* The data source state before anything is set.
Unset == [set |-> FALSE, ascii |-> ComputedNull, ascii_sha256 |-> ComputedNull]

DSResponse(st, dg, cs) == [dsState |-> st, diags |-> dg, calls |-> cs]

\* Faulty variant of QRCodeDataSourceRead: the border setting of the
\* previous Read's code object is still in force.
QRCodeDataSourceReadStickyBorder(data) ==
    LET lv == RecoveryLevel(data.error_correction)
        qrText == IF ~IsNull(data.text)
                  THEN ValueString(data.text)
                  ELSE ValueString(data.sensitive_text)
        new == New(qrText, lv.level)
        qr == IF ValueBool(data.disable_border) \/ (dsState.set /\ dsState.ascii.v[4])
              THEN [new.qr EXCEPT !.DisableBorder = TRUE]
              ELSE new.qr
        asciiQR == ToSmallString(qr, ValueBool(data.invert))
        asciiChecksum == computeSHA256(asciiQR)
    IN  IF lv.err
        THEN DSResponse(Unset, <<"Invalid Error Correction Level">>, << >>)
        ELSE IF new.err
        THEN DSResponse(Unset, <<"QR Code Generation Failed">>, <<Call("New", "error")>>)
        ELSE DSResponse([set |-> TRUE, ascii |-> ComputedValue(asciiQR),
                         ascii_sha256 |-> ComputedValue(asciiChecksum)],
                        << >>,
                        <<Call("New", "ok"), Call("ToSmallString", "ok"),
                          Call("computeSHA256", "ok"), Call("StateSet", "ok")>>)

\* QRCodeDataSource.Read, with the ascii_sha256 attribute.
QRCodeDataSourceRead(data) ==
    LET lv == RecoveryLevel(data.error_correction)
        qrText == IF ~IsNull(data.text)
                  THEN ValueString(data.text)
                  ELSE ValueString(data.sensitive_text)
        new == New(qrText, lv.level)
        qr == IF ValueBool(data.disable_border)
              THEN [new.qr EXCEPT !.DisableBorder = TRUE]
              ELSE new.qr
        asciiQR == ToSmallString(qr, ValueBool(data.invert))
        asciiChecksum == computeSHA256(asciiQR)
    IN  IF lv.err
        THEN DSResponse(Unset, <<"Invalid Error Correction Level">>, << >>)
        ELSE IF new.err
        THEN DSResponse(Unset, <<"QR Code Generation Failed">>, <<Call("New", "error")>>)
        ELSE DSResponse([set |-> TRUE, ascii |-> ComputedValue(asciiQR),
                         ascii_sha256 |-> ComputedValue(asciiChecksum)],
                        << >>,
                        <<Call("New", "ok"), Call("ToSmallString", "ok"),
                          Call("computeSHA256", "ok"), Call("StateSet", "ok")>>)

\* QRCodeDataSource.Read of internal/provider/data_source_qrcode.go, whose
\* schema and state have no ascii_sha256 attribute.
QRCodeDataSourceReadInternal(data) ==
    LET lv == RecoveryLevel(data.error_correction)
        textValue == IF IsNull(data.text)
                     THEN ValueString(data.sensitive_text)
                     ELSE ValueString(data.text)
        new == New(textValue, lv.level)
        qr == IF ValueBool(data.disable_border)
              THEN [new.qr EXCEPT !.DisableBorder = TRUE]
              ELSE new.qr
        asciiQR == ToSmallString(qr, ValueBool(data.invert))
    IN  IF lv.err
        THEN DSResponse(Unset, <<"Invalid Error Correction Level">>, << >>)
        ELSE IF new.err
        THEN DSResponse(Unset, <<"QR Code Generation Failed">>, <<Call("New", "error")>>)
        ELSE DSResponse([set |-> TRUE, ascii |-> ComputedValue(asciiQR),
                         ascii_sha256 |-> ComputedNull],
                        << >>,
                        <<Call("New", "ok"), Call("ToSmallString", "ok"),
                          Call("StateSet", "ok")>>)

----------------------------------------------------------------------------
(* Inputs.                                                                 *)

\* Largest high word of the sizes tried.
MaxHi == 1

Texts == {StringNull, StringValue("qrcode"), StringValue(LongText)}

SensitiveTexts == {StringNull, StringValue("qrcode")}

Sizes ==
    {Int64Null}
    \cup {Int64Value(I64(0, n)) : n \in {99, 100, 2000, 2001}}
    \cup {Int64Value(I64(h, 256)) : h \in 1..MaxHi}

FilePaths == {<<"a.png">>, <<"out", "b.png">>}

\* The plans that pass validation, which are the ones a handler is given:
\* text alone or sensitive_text alone.
Plans ==
    [text : Texts \ {StringNull}, sensitive_text : {StringNull}, size : Sizes,
     file : {PathValue(p) : p \in FilePaths}]
    \cup
    [text : {StringNull}, sensitive_text : SensitiveTexts \ {StringNull}, size : Sizes,
     file : {PathValue(p) : p \in FilePaths}]

WriteFaults == {"none", "open", "write"}

\* Plans as they are configured, valid or not, that differ in which of text
\* and sensitive_text they set only.
TextPlans ==
    [text : Texts, sensitive_text : SensitiveTexts, size : {Int64Null},
     file : {PathValue(<<"a.png">>)}]

ErrorCorrections ==
    {LevelNull, LevelValue(<< >>)}
    \cup {LevelValue(<<c>>) : c \in {"l", "L", "m", "M", "q", "Q", "h", "H", "x", "X"}}
    \cup {LevelValue(<<"L", "L">>), LevelValue(<<"m", "q">>)}

Bools == {BoolNull, BoolValue(FALSE), BoolValue(TRUE)}

Configs ==
    [text : Texts, sensitive_text : SensitiveTexts,
     error_correction : ErrorCorrections, disable_border : Bools, invert : Bools]

\* Configurations that differ in which of text and sensitive_text they set only.
TextConfigs ==
    [text : Texts, sensitive_text : SensitiveTexts,
     error_correction : {LevelNull}, disable_border : {BoolNull}, invert : {BoolNull}]

NoInput == [none |-> TRUE]

\* TRUE iff the handler that answered with r made the call c.
Called(r, c) == \E i \in DOMAIN r.calls : r.calls[i].name = c

\* The ways the MkdirAll of a Create can go wrong, and the ways its
\* WriteFile can after that; a call that is not reached cannot fail.
MkdirFaults(plan) == 0..Len(Dir(ValueString(plan.file)))

WriteFaultsAt(failAt) == IF failAt = 0 THEN WriteFaults ELSE {"none"}

----------------------------------------------------------------------------
(* The host's requests.                                                    *)

Init ==
    /\ state = Absent
    /\ files = [p \in FilePaths |-> NoFile]
    /\ dirs = {}
    /\ diags = << >>
    /\ calls = << >>
    /\ request = [op |-> "Init", input |-> NoInput]
    /\ dsState = Unset
    /\ intBits \in {32, 64}

\* The response a request ends with becomes the new state of the world.
Apply(r) ==
    /\ state' = r.state
    /\ files' = r.files
    /\ dirs' = r.dirs
    /\ diags' = r.diags
    /\ calls' = r.calls

\* A configuration the schema validators reject never reaches a handler.
Rejected == Response(state, files, dirs, <<"Invalid Attribute Combination">>, << >>)

\* Apply of a new resource: validation, then Create.
qrcodeResourceCreate(plans) ==
    /\ ~state.present
    /\ \E plan \in plans :
         LET smooth == Create(plan, Absent, files, dirs, intBits, 0, "none")
         IN  /\ request' = [op |-> "Create", input |-> plan]
             /\ IF ~ExactlyOneOf(plan.text, plan.sensitive_text)
                THEN Apply(Rejected)
                ELSE IF ~Called(smooth, "MkdirAll")
                THEN Apply(smooth)
                ELSE \E failAt \in MkdirFaults(plan) :
                     \E fault \in WriteFaultsAt(failAt) :
                       Apply(Create(plan, Absent, files, dirs, intBits, failAt, fault))
    /\ UNCHANGED <<dsState, intBits>>

\* Apply of a changed resource: validation, then Update.
qrcodeResourceUpdate(plans) ==
    /\ state.present
    /\ \E plan \in plans :
         LET smooth == Update(plan, state, files, dirs, intBits, 0, "none")
         IN  /\ request' = [op |-> "Update", input |-> plan]
             /\ IF ~ExactlyOneOf(plan.text, plan.sensitive_text)
                THEN Apply(Rejected)
                ELSE IF ~Called(smooth, "MkdirAll")
                THEN Apply(smooth)
                ELSE \E failAt \in MkdirFaults(plan) :
                     \E fault \in WriteFaultsAt(failAt) :
                       Apply(Update(plan, state, files, dirs, intBits, failAt, fault))
    /\ UNCHANGED <<dsState, intBits>>

\* Refresh.
qrcodeResourceRead ==
    /\ state.present
    /\ \E outcome \in StatOutcomes(ValueString(state.file), files) :
         Apply(Read(state, files, dirs, outcome))
    /\ request' = [op |-> "Read", input |-> NoInput]
    /\ UNCHANGED <<dsState, intBits>>

\* Destroy.
qrcodeResourceDelete ==
    /\ state.present
    /\ \E outcome \in StatOutcomes(ValueString(state.file), files), fault \in BOOLEAN :
         Apply(Delete(state, files, dirs, outcome, fault))
    /\ request' = [op |-> "Delete", input |-> NoInput]
    /\ UNCHANGED <<dsState, intBits>>

\* Someone removes a file by hand.
ExternalRemove ==
    /\ \E p \in FilePaths :
         /\ files[p] # NoFile
         /\ files' = [files EXCEPT ![p] = NoFile]
    /\ request' = [op |-> "ExternalRemove", input |-> NoInput]
    /\ diags' = << >>
    /\ calls' = << >>
    /\ UNCHANGED <<state, dirs, dsState, intBits>>

\* The response of a data source Read becomes the data source's state.
ApplyDS(r) ==
    /\ dsState' = r.dsState
    /\ diags' = r.diags
    /\ calls' = r.calls

RejectedDS == DSResponse(Unset, <<"Invalid Attribute Combination">>, << >>)

\* Read of the data source: validation, then Read.
DataSourceRead(configs) ==
    /\ \E data \in configs :
         /\ request' = [op |-> "DataSourceRead", input |-> data]
         /\ ApplyDS(IF ExactlyOneOf(data.text, data.sensitive_text)
                      THEN QRCodeDataSourceRead(data)
                      ELSE RejectedDS)
    /\ UNCHANGED <<state, files, dirs, intBits>>

\* The same for the data source of internal/provider/data_source_qrcode.go.
DataSourceReadInternal(configs) ==
    /\ \E data \in configs :
         /\ request' = [op |-> "DataSourceReadInternal", input |-> data]
         /\ ApplyDS(IF ExactlyOneOf(data.text, data.sensitive_text)
                      THEN QRCodeDataSourceReadInternal(data)
                      ELSE RejectedDS)
    /\ UNCHANGED <<state, files, dirs, intBits>>

\* The resource's life.
Next ==
    \/ qrcodeResourceCreate(Plans)
    \/ qrcodeResourceUpdate(Plans)
    \/ qrcodeResourceRead
    \/ qrcodeResourceDelete
    \/ ExternalRemove

Spec == Init /\ [][Next]_vars

\* The data source's reads.
NextDS ==
    \/ DataSourceRead(Configs)
    \/ DataSourceReadInternal(Configs)

SpecDS == Init /\ [][NextDS]_vars

\* Resource and data source together, on the inputs that matter to
\* validation.
NextAll ==
    \/ qrcodeResourceCreate(TextPlans)
    \/ qrcodeResourceUpdate(TextPlans)
    \/ qrcodeResourceRead
    \/ qrcodeResourceDelete
    \/ ExternalRemove
    \/ DataSourceRead(TextConfigs)
    \/ DataSourceReadInternal(TextConfigs)

SpecAll == Init /\ [][NextAll]_vars

----------------------------------------------------------------------------
(* Properties.                                                             *)

ApplyOps == {"Create", "Update"}
DSOps == {"DataSourceRead", "DataSourceReadInternal"}

\* The request passed validation: exactly one of its two texts is set.
OneTextSet(input) == input.text.null # input.sensitive_text.null

\* The text a valid request selects.
Selected(input) == IF input.text.null THEN input.sensitive_text.v ELSE input.text.v

\* The size is null or lies in [100, 2000].
ValidSize(size) == size.null \/ (size.v.hi = 0 /\ size.v.lo >= 100 /\ size.v.lo <= 2000)

\* The size a plan with a valid size asks for.
ChosenSize(size) == IF size.null THEN I64(0, 256) ELSE size.v

\* C1: a Create of a plan with a valid size that ends without an error
\* leaves, at the planned path, the PNG encoding of the selected text at
\* medium error correction and the chosen size, and a state that echoes
\* text, sensitive_text, size and file and whose sha256 is the digest of the
\* bytes in that file.
C1_CreateWritesFileAndState ==
    (request.op = "Create" /\ diags = << >> /\ ValidSize(request.input.size)) =>
        LET plan == request.input
            bytes == files[plan.file.v]
        IN  /\ bytes = Encode(Selected(plan), Medium, ChosenSize(plan.size)).data
            /\ bytes # NoFile
            /\ state = [present |-> TRUE, text |-> plan.text,
                        sensitive_text |-> plan.sensitive_text,
                        size |-> plan.size, file |-> plan.file,
                        sha256 |-> ComputedValue(Sha256Hex(bytes))]

\* A Create through sensitive_text with an explicit size has succeeded.
C1_Witness ==
    /\ request.op = "Create"
    /\ diags = << >>
    /\ state.present
    /\ state.text.null
    /\ state.size = Int64Value(I64(0, 2000))
    /\ files[state.file.v] # NoFile

\* C2: in Create and Update a null size means 256, every non-null size
\* below 100 or above 2000 ends in the Invalid Size error with no call made,
\* and 100 and 2000 are accepted.
C2_SizeRange ==
    (request.op \in ApplyOps /\ OneTextSet(request.input)) =>
        LET plan == request.input
        IN  /\ (~plan.size.null /\ (Less(plan.size.v, 100) \/ Greater(plan.size.v, 2000)))
                  => (diags = <<"Invalid Size">> /\ calls = << >>)
            /\ ValidSize(plan.size) => diags # <<"Invalid Size">>
            /\ (plan.size.null /\ diags = << >>)
                  => files[plan.file.v][4] = I64(0, 256)

\* C10: a Create or Update that ends with an error diagnostic leaves the
\* state as it was before the request; after the Invalid Size and the
\* generation errors the filesystem is as it was, too.
C10_ErrorWritesNoState ==
    [][(request'.op \in ApplyOps /\ diags' # << >>) =>
          /\ state' = state
          /\ (diags' \in {<<"Invalid Attribute Combination">>, <<"Invalid Size">>,
                          <<"QR Code Generation Failed">>})
                => (files' = files /\ dirs' = dirs)]_vars

\* An Update of an existing resource failed while writing the file.
C10_Witness ==
    /\ request.op = "Update"
    /\ diags = <<"Failed to Save QR Code">>
    /\ state.present
    /\ files[request.input.file.v] = Partial

\* The recovery level each spelling of error_correction stands for.
ExpectedLevel(ec) ==
    CASE ec \in {<<"l">>, <<"L">>} -> Low
      [] ec \in {<<"m">>, <<"M">>, << >>} -> Medium
      [] ec \in {<<"q">>, <<"Q">>} -> High
      [] ec \in {<<"h">>, <<"H">>} -> Highest
      [] OTHER -> "none"

\* C3: a data source Read resolves L, M, Q, H in either case, and the empty
\* or null string as M, to the low, medium, high and highest level; on any
\* other string it ends in the Invalid Error Correction Level error with
\* nothing encoded and no attribute set.
C3_LevelResolution ==
    (request.op \in DSOps /\ OneTextSet(request.input)) =>
        LET lvl == ExpectedLevel(request.input.error_correction.v)
        IN  IF lvl = "none"
            THEN /\ diags = <<"Invalid Error Correction Level">>
                 /\ calls = << >>
                 /\ dsState = Unset
            ELSE /\ diags # <<"Invalid Error Correction Level">>
                 /\ calls # << >>
                 /\ calls[1].name = "New"
                 /\ dsState.set => dsState.ascii.v[3] = lvl

\* A Read with error_correction "q" produced a grid at the high level.
C3_Witness ==
    /\ request.op \in DSOps
    /\ request.input.error_correction = LevelValue(<<"q">>)
    /\ dsState.set
    /\ dsState.ascii.v[3] = High

\* C4: a resource or data source configuration that sets both text and
\* sensitive_text, or neither, is rejected with no call made, so whenever
\* the encoder was called exactly one of the two is non-null.
C4_ExactlyOneText ==
    (request.op \in ApplyOps \cup DSOps) =>
        /\ ~OneTextSet(request.input)
              => (diags = <<"Invalid Attribute Combination">> /\ calls = << >>)
        /\ (\E i \in DOMAIN calls : calls[i].name \in {"Encode", "New"})
              => OneTextSet(request.input)

\* A resource configuration with both texts set was rejected.
C4_Witness ==
    /\ request.op = "Create"
    /\ ~request.input.text.null
    /\ ~request.input.sensitive_text.null
    /\ diags = <<"Invalid Attribute Combination">>

\* C5: a data source Read that ends without an error has set ascii and
\* ascii_sha256, and ascii_sha256 is the digest of the string in ascii.
C5_AsciiAndDigest ==
    (request.op \in DSOps /\ diags = << >>) =>
        /\ dsState.set
        /\ ~dsState.ascii.null
        /\ ~dsState.ascii_sha256.null
        /\ dsState.ascii_sha256.v = Sha256Hex(dsState.ascii.v)

\* C6: a Read touches no file and reports no error; it removes the
\* resource from state when its file is missing and leaves the state as it
\* was when the file is there.
C6_ReadDropsMissing ==
    [][request'.op = "Read" =>
          /\ files' = files
          /\ dirs' = dirs
          /\ diags' = << >>
          /\ files[state.file.v] = NoFile => ~state'.present
          /\ files[state.file.v] # NoFile => state' = state]_vars

\* C7: a Delete that ends without an error has removed the resource from
\* state and left no file at the state's path; a Delete of a resource whose
\* file is missing ends without an error; a Delete whose Remove fails ends
\* with an error and the resource still in state.
C7_DeleteRemoves ==
    [][request'.op = "Delete" =>
          /\ diags' = << >> => (~state'.present /\ files'[state.file.v] = NoFile)
          /\ files[state.file.v] = NoFile => diags' = << >>
          /\ (\E i \in DOMAIN calls' : calls'[i] = Call("Remove", "error"))
                => (diags' # << >> /\ state' = state)]_vars

\* C8: a Read right after an Update that ended without an error finds the
\* resource in state, with the state the plan alone determines, the planned
\* file holding the encoding of the plan's text and size, and sha256 the
\* digest of that file.
C8_UpdateRegenerates ==
    [][(request.op = "Update" /\ diags = << >> /\ request'.op = "Read") =>
          LET plan == request.input
              size == IF plan.size.null THEN I64(0, 256) ELSE GoInt(plan.size.v, intBits)
              bytes == files'[plan.file.v]
          IN  /\ bytes = Encode(Selected(plan), Medium, size).data
              /\ bytes # NoFile
              /\ state' = [present |-> TRUE, text |-> plan.text,
                           sensitive_text |-> plan.sensitive_text,
                           size |-> plan.size, file |-> plan.file,
                           sha256 |-> ComputedValue(Sha256Hex(bytes))]]_vars

\* An Update has succeeded on a resource, changing its file's content, and
\* a Read can follow.
C8_Witness ==
    /\ request.op = "Update"
    /\ diags = << >>
    /\ state.present
    /\ state.size = Int64Value(I64(0, 100))
    /\ files[state.file.v] = Encode("qrcode", Medium, I64(0, 100)).data

\* C9: a call that returned an error is the last call of its handler and
\* left an error diagnostic, and no call is made twice.
C9_ErrorsSurface ==
    \A i \in DOMAIN calls :
        /\ calls[i].result = "error" => (diags # << >> /\ i = Len(calls))
        /\ \A j \in DOMAIN calls : j # i => calls[j].name # calls[i].name

\* What the output of a data source Read may depend on: the text selected,
\* the level error_correction resolves to, disable_border and invert (and
\* which of the two data source files reads).
ReadKey(req) ==
    <<req.op, Selected(req.input), ExpectedLevel(req.input.error_correction.v),
      req.input.disable_border, req.input.invert>>

\* The output a key determines: nothing when the level is invalid or the
\* text cannot be encoded, else the grid of the text at the level with the
\* two flags, and its digest where the reading file has that attribute.
OutputOf(key) ==
    IF key[3] = "none" \/ EncodeFails(key[2], key[3])
    THEN Unset
    ELSE LET grid == <<"ascii", key[2], key[3], ValueBool(key[4]), ValueBool(key[5])>>
         IN  [set |-> TRUE,
              ascii |-> ComputedValue(grid),
              ascii_sha256 |-> IF key[1] = "DataSourceRead"
                               THEN ComputedValue(Sha256Hex(grid))
                               ELSE ComputedNull]

\* C11: after any history of Reads, the ascii and ascii_sha256 a data source
\* Read leaves are determined by the selected text, the resolved level,
\* disable_border and invert alone: Reads that agree on these agree on both
\* outputs, whatever Reads went before and whichever of text and
\* sensitive_text carried the text.
C11_OutputFunctionOfInputs ==
    (request.op \in DSOps /\ OneTextSet(request.input)) =>
        dsState = OutputOf(ReadKey(request))

\* A Read of a text given through sensitive_text, its level spelled in lower
\* case, produced a grid.
C11_Witness ==
    /\ request.op = "DataSourceRead"
    /\ request.input.text.null
    /\ request.input.error_correction = LevelValue(<<"h">>)
    /\ dsState.set
    /\ dsState.ascii.v[2] = "qrcode"
    /\ ~dsState.ascii_sha256.null

\* No call of the last handler returned an error.
NoCallFailed == \A i \in DOMAIN calls : calls[i].result # "error"

\* The only file on disk is the one at the state's file path, and there is
\* none when the resource is not in state.
OnlyCurrentFile ==
    \A p \in FilePaths : files[p] # NoFile => (state.present /\ state.file.v = p)

\* C12: a Create, Update or Delete that succeeds, on a disk that holds no
\* file but the one of the current state, leaves a disk that holds no file
\* but the one of the new state.
C12_UpdateInPlace ==
    [][(/\ OnlyCurrentFile
        /\ request'.op \in {"Create", "Update", "Delete"}
        /\ diags' = << >>
        /\ NoCallFailed')
          => OnlyCurrentFile']_vars

====
